---- MODULE Spec2Model ----
(***************************************************************************)
(* PPPoE discovery client (discovery.c): the PADI/PADO/PADR/PADS state     *)
(* machine of discovery(), with waitForPADO, waitForPADS, the tag visitors *)
(* parsePADOTags / parsePADSTags / parseForHostUniq and the frames built   *)
(* by sendPADI / sendPADR.                                                 *)
(*                                                                         *)
(* A frame is a record                                                     *)
(*   [h_dest, h_source, code, session, length, len, tags]                  *)
(* h_dest/h_source are 6-byte tuples, session and length are the numeric   *)
(* values of the big-endian wire fields, len is the number of bytes the    *)
(* socket delivered, tags is the TLV stream as a sequence of               *)
(* [type, data] records (type numeric, data a sequence of bytes).          *)
(* Values of uint16_t fields that the code keeps in network byte order     *)
(* (conn->session, conn->cookie.type, ...) are kept as the host sees them, *)
(* i.e. as htons() of the numeric value.                                   *)
(***************************************************************************)
EXTENDS Integers, Sequences, FiniteSets, TLC

(***************************************************************************)
(* Bounds of the model.                                                    *)
(***************************************************************************)
\* frames delivered by the socket during one call of discovery()
MaxRecv == 2
\* PADI and PADR frames sent during one call of discovery() (persistent
\* mode loops for ever; a call with persist = 0 sends at most
\* 2 * MAX_PADI_ATTEMPTS of them, and seven PADIs take a persistent call
\* through its first PADI cycle and four waits of the second)
MaxSent == 7

(***************************************************************************)
(* Program constants (pppoe.h).                                            *)
(***************************************************************************)
MAX_PADI_ATTEMPTS == 3
HDR_SIZE == 20
TAG_HDR_SIZE == 4
ETH_ALEN == 6

CODE_PADI == 9
CODE_PADO == 7
CODE_PADR == 25
CODE_PADS == 101
CODE_PADT == 167

TAG_SERVICE_NAME == 257
TAG_AC_NAME == 258
TAG_HOST_UNIQ == 259
TAG_AC_COOKIE == 260
TAG_RELAY_SESSION_ID == 272
TAG_SERVICE_NAME_ERROR == 513
TAG_AC_SYSTEM_ERROR == 514
TAG_GENERIC_ERROR == 515
TAG_PPP_MAX_PAYLOAD == 288

\* the largest PPP payload of a PPPoE frame without RFC 4638
ETH_PPPOE_MTU == 1492

STATE_INITIAL == "STATE_INITIAL"
STATE_SENT_PADI == "STATE_SENT_PADI"
STATE_RECEIVED_PADO == "STATE_RECEIVED_PADO"
STATE_SENT_PADR == "STATE_SENT_PADR"
STATE_SESSION == "STATE_SESSION"

\* a NULL char* (conn->hostUniq, conn->acName, conn->serviceName): a value
\* that is no string of bytes
NULL == <<-1>>

(***************************************************************************)
(* Byte order: htons / ntohs on a little-endian host swap the two bytes.   *)
(***************************************************************************)
htons(x) == (x % 256) * 256 + (x \div 256)
ntohs(x) == (x % 256) * 256 + (x \div 256)

(***************************************************************************)
(* MAC addresses.                                                          *)
(***************************************************************************)
ZeroMac == <<0, 0, 0, 0, 0, 0>>
BcastMac == <<255, 255, 255, 255, 255, 255>>
MyMac == <<2, 0, 0, 0, 0, 1>>
AC1Mac == <<2, 0, 0, 0, 0, 2>>
AC2Mac == <<2, 0, 0, 0, 0, 3>>
OtherMac == <<2, 0, 0, 0, 0, 9>>

\* memcmp(a, b, n) == 0
memcmpEq(a, b, n) == \A i \in 1..n : a[i] = b[i]

\* BROADCAST(e): the AND of the six bytes is 0xFF
BROADCAST(e) == \A i \in 1..ETH_ALEN : e[i] = 255

\* strlen of a configured C string (a sequence of non-zero bytes)
strlen(s) == Len(s)

\* strncmp(a, b, n) == 0: bytes are compared up to the first NUL or n bytes
strncmpEq(a, b, n) ==
    \A i \in 1..n : (\A j \in 1..(i - 1) : a[j] # 0) => a[i] = b[i]

(***************************************************************************)
(* Tags and frames.                                                        *)
(***************************************************************************)
Tag(t, d) == [type |-> t, data |-> d]

RECURSIVE TagsSize(_)
\* bytes taken by a TLV stream: TAG_HDR_SIZE + length for every tag
TagsSize(tags) ==
    IF tags = <<>> THEN 0
    ELSE TAG_HDR_SIZE + Len(Head(tags).data) + TagsSize(Tail(tags))

\* a frame as sendPacket puts it on the wire / receivePacket delivers it
Frame(dst, src, code, session, tags) ==
    [h_dest |-> dst, h_source |-> src, code |-> code, session |-> session,
     length |-> TagsSize(tags), len |-> TagsSize(tags) + HDR_SIZE,
     tags |-> tags]

\* a PPPoETag kept in the connection (conn->cookie, conn->relayId):
\* type and length in network byte order, payload as copied
NoTag == [type |-> 0, length |-> 0, payload |-> <<>>]

(***************************************************************************)
(* State.                                                                  *)
(*   persist       the global int persist                                  *)
(*   conn          the PPPoEConnection; req_peer and req_peer_mac exist    *)
(*                 in builds with PLUGIN only, req_peer = 0 stands for     *)
(*                 the other builds too                                    *)
(*   padiAttempts, padrAttempts, timeout   the locals of discovery()       *)
(*   pc            where discovery() stands: "entry", "padi_loop" (top of  *)
(*                 the PADI do-loop body), "waitForPADO", "padr_loop",     *)
(*                 "waitForPADS", "returned", "exit_success",              *)
(*                 "exit_failure"                                          *)
(* Observations of the run (never read by the program):                    *)
(*   sent          the last frame handed to sendPacket / sendPADT          *)
(*   nPADI, nPADR, nPADT   frames sent so far, by code                     *)
(*   nrecv         frames delivered by receivePacket so far                *)
(*   rcvd          the frame delivered by the step just taken              *)
(*   acceptedPADO  the PADO that moved the state to STATE_RECEIVED_PADO    *)
(*   waitK         waits started in the current phase since it (re)began   *)
(* The PPP stack (builds with PLUGIN):                                     *)
(*   lcp_allowoptions, lcp_wantoptions   element 0 of the global arrays of *)
(*                 the stack, with the field mru                           *)
(*   maxPayloadRcvd   observation: a frame delivered so far carried a      *)
(*                 PPP-Max-Payload tag of length 2 and value >= 1492       *)
(* The clock of one timed wait (waitForPADO / waitForPADS), followed in    *)
(* TimerSpec only:                                                         *)
(*   now           what gettimeofday() would return                        *)
(*   expire_at, tv the locals of the wait                                  *)
(*   wpc           where the wait stands: "idle" (no wait followed),       *)
(*                 "enter", "time_left", "select", "timed_out" (returned   *)
(*                 on the deadline), "done" (left the loop on a frame),    *)
(*                 "fatal" (fatalSys)                                      *)
(***************************************************************************)
VARIABLES persist, conn, padiAttempts, padrAttempts, timeout, pc,
          sent, nPADI, nPADR, nPADT, nrecv, rcvd, acceptedPADO, waitK

VARIABLES lcp_allowoptions, lcp_wantoptions, maxPayloadRcvd

VARIABLES now, expire_at, tv, wpc

discoveryVars ==
    <<persist, conn, padiAttempts, padrAttempts, timeout, pc,
      sent, nPADI, nPADR, nPADT, nrecv, rcvd, acceptedPADO, waitK>>

lcpVars == <<lcp_allowoptions, lcp_wantoptions, maxPayloadRcvd>>

timerVars == <<now, expire_at, tv, wpc>>

vars == <<discoveryVars, lcpVars, timerVars>>

\* no frame (code 0 is no PPPoE code)
NoFrame == Frame(ZeroMac, ZeroMac, 0, 0, <<>>)

(***************************************************************************)
(* parseForHostUniq: extra is a HostUniqInfo [hostUniq, forMe].            *)
(***************************************************************************)
\* parseForHostUniq without the length comparison: a tag that starts with
\* the bytes of hostUniq matches
parseForHostUniq_PrefixOnly(type, len, data, hi) ==
    IF hi.hostUniq = NULL THEN hi
    ELSE IF /\ type = TAG_HOST_UNIQ
            /\ len >= strlen(hi.hostUniq)
            /\ memcmpEq(data, hi.hostUniq, strlen(hi.hostUniq))
         THEN [hi EXCEPT !.forMe = 1]
         ELSE hi

parseForHostUniq(type, len, data, hi) ==
    IF hi.hostUniq = NULL THEN hi
    ELSE IF /\ type = TAG_HOST_UNIQ
            /\ len = strlen(hi.hostUniq)
            /\ memcmpEq(data, hi.hostUniq, len)
         THEN [hi EXCEPT !.forMe = 1]
         ELSE hi

(***************************************************************************)
(* The case TAG_PPP_MAX_PAYLOAD of parsePADOTags and parsePADSTags (builds *)
(* with PLUGIN): x is the visitor's extra, which carries the connection    *)
(* and the two globals the case writes.                                    *)
(***************************************************************************)
\* memcpy(&mru, data, sizeof(mru)) on a little-endian host
memcpy16(data) == data[1] + data[2] * 256

MaxPayloadTag(len, data, x) ==
    IF len = 2
    THEN LET mru == ntohs(memcpy16(data))
         IN  IF mru >= ETH_PPPOE_MTU
             THEN [x EXCEPT !.lcp_allowoptions.mru = IF @ > mru THEN mru ELSE @,
                            !.lcp_wantoptions.mru = IF @ > mru THEN mru ELSE @,
                            !.conn.seenMaxPayload = 1]
             ELSE x
    ELSE x

(***************************************************************************)
(* parsePADOTags: extra is a PacketCriteria                                *)
(*   [conn, seenACName, acNameOK, seenServiceName, serviceNameOK,          *)
(*    gotError]                                                            *)
(* plus exited, set when the visitor has called exit(EXIT_FAILURE): the    *)
(* process is gone and the remaining tags are not visited; and plus the    *)
(* globals lcp_allowoptions and lcp_wantoptions as the visitor leaves      *)
(* them.                                                                   *)
(***************************************************************************)
\* an error tag in a PADO that ends the process whatever persist is
PADOErrorTag_ExitAlways(crit) ==
    IF crit.conn.printACNames # 0 THEN crit
    ELSE [crit EXCEPT !.gotError = 1, !.exited = TRUE]

\* an error tag in a PADO that is logged but never ends the process
PADOErrorTag_NoExit(crit) ==
    IF crit.conn.printACNames # 0 THEN crit
    ELSE [crit EXCEPT !.gotError = 1]

PADOErrorTag(crit) ==
    IF crit.conn.printACNames # 0 THEN crit
    ELSE [crit EXCEPT !.gotError = 1, !.exited = (persist = 0)]

\* parsePADOTags whose name filters accept a tag that merely starts with
\* the configured name
parsePADOTags_PrefixMatch(type, len, data, crit) ==
    IF crit.exited THEN crit
    ELSE CASE type = TAG_AC_NAME ->
                [crit EXCEPT !.seenACName = 1,
                             !.acNameOK =
                                 IF /\ crit.conn.acName # NULL
                                    /\ len >= strlen(crit.conn.acName)
                                    /\ strncmpEq(data, crit.conn.acName,
                                                 strlen(crit.conn.acName))
                                 THEN 1 ELSE @]
           [] type = TAG_SERVICE_NAME ->
                [crit EXCEPT !.seenServiceName = 1,
                             !.serviceNameOK =
                                 IF /\ crit.conn.serviceName # NULL
                                    /\ len >= strlen(crit.conn.serviceName)
                                    /\ strncmpEq(data, crit.conn.serviceName,
                                                 strlen(crit.conn.serviceName))
                                 THEN 1 ELSE @]
           [] type = TAG_AC_COOKIE ->
                [crit EXCEPT !.conn.cookie =
                                 [type |-> htons(type), length |-> htons(len),
                                  payload |-> data]]
           [] type = TAG_RELAY_SESSION_ID ->
                [crit EXCEPT !.conn.relayId =
                                 [type |-> htons(type), length |-> htons(len),
                                  payload |-> data]]
           [] type = TAG_SERVICE_NAME_ERROR -> PADOErrorTag(crit)
           [] type = TAG_AC_SYSTEM_ERROR -> PADOErrorTag(crit)
           [] type = TAG_GENERIC_ERROR -> PADOErrorTag(crit)
           [] type = TAG_PPP_MAX_PAYLOAD -> MaxPayloadTag(len, data, crit)
           [] OTHER -> crit

parsePADOTags(type, len, data, crit) ==
    IF crit.exited THEN crit
    ELSE CASE type = TAG_AC_NAME ->
                [crit EXCEPT !.seenACName = 1,
                             !.acNameOK =
                                 IF /\ crit.conn.acName # NULL
                                    /\ len = strlen(crit.conn.acName)
                                    /\ strncmpEq(data, crit.conn.acName, len)
                                 THEN 1 ELSE @]
           [] type = TAG_SERVICE_NAME ->
                [crit EXCEPT !.seenServiceName = 1,
                             !.serviceNameOK =
                                 IF /\ crit.conn.serviceName # NULL
                                    /\ len = strlen(crit.conn.serviceName)
                                    /\ strncmpEq(data, crit.conn.serviceName, len)
                                 THEN 1 ELSE @]
           [] type = TAG_AC_COOKIE ->
                [crit EXCEPT !.conn.cookie =
                                 [type |-> htons(type), length |-> htons(len),
                                  payload |-> data]]
           [] type = TAG_RELAY_SESSION_ID ->
                [crit EXCEPT !.conn.relayId =
                                 [type |-> htons(type), length |-> htons(len),
                                  payload |-> data]]
           [] type = TAG_SERVICE_NAME_ERROR -> PADOErrorTag(crit)
           [] type = TAG_AC_SYSTEM_ERROR -> PADOErrorTag(crit)
           [] type = TAG_GENERIC_ERROR -> PADOErrorTag(crit)
           [] type = TAG_PPP_MAX_PAYLOAD -> MaxPayloadTag(len, data, crit)
           [] OTHER -> crit

(***************************************************************************)
(* parsePADSTags: extra is the connection, x.conn here, next to the        *)
(* globals lcp_allowoptions and lcp_wantoptions as the visitor leaves      *)
(* them.                                                                   *)
(***************************************************************************)
\* parsePADSTags that does not flag the error tags
parsePADSTags_IgnoresErrors(type, len, data, x) ==
    CASE type = TAG_RELAY_SESSION_ID ->
            [x EXCEPT !.conn.relayId =
                          [type |-> htons(type), length |-> htons(len),
                           payload |-> data]]
      [] type = TAG_PPP_MAX_PAYLOAD -> MaxPayloadTag(len, data, x)
      [] OTHER -> x

parsePADSTags(type, len, data, x) ==
    CASE type \in {TAG_GENERIC_ERROR, TAG_AC_SYSTEM_ERROR,
                   TAG_SERVICE_NAME_ERROR} ->
            [x EXCEPT !.conn.PADSHadError = 1]
      [] type = TAG_RELAY_SESSION_ID ->
            [x EXCEPT !.conn.relayId =
                          [type |-> htons(type), length |-> htons(len),
                           payload |-> data]]
      [] type = TAG_PPP_MAX_PAYLOAD -> MaxPayloadTag(len, data, x)
      [] OTHER -> x

(***************************************************************************)
(* parsePacket (common.c): calls the visitor func for every tag of the     *)
(* frame, in order; func names the visitor, as the function pointer does.  *)
(***************************************************************************)
CallVisitor(func, type, len, data, extra) ==
    CASE func = "parseForHostUniq" -> parseForHostUniq(type, len, data, extra)
      [] func = "parsePADOTags" -> parsePADOTags(type, len, data, extra)
      [] func = "parsePADSTags" -> parsePADSTags(type, len, data, extra)

RECURSIVE parsePacket(_, _, _)
parsePacket(tags, func, extra) ==
    IF tags = <<>> THEN extra
    ELSE parsePacket(Tail(tags), func,
                     CallVisitor(func, Head(tags).type, Len(Head(tags).data),
                                 Head(tags).data, extra))

(***************************************************************************)
(* packetIsForMe                                                           *)
(***************************************************************************)
packetIsForMe(c, packet) ==
    IF ~memcmpEq(packet.h_dest, c.myEth, ETH_ALEN) THEN 0
    ELSE IF c.hostUniq = NULL THEN 1
    ELSE parsePacket(packet.tags, "parseForHostUniq",
                     [hostUniq |-> c.hostUniq, forMe |-> 0]).forMe

(***************************************************************************)
(* sendPADI / sendPADR / sendPADT: the frame handed to sendPacket.         *)
(***************************************************************************)
\* the service name that makes sendPADI omit the Service-Name tag
\* ("NO-SERVICE-NAME-NON-RFC-COMPLIANT"), abbreviated
NO_SERVICE_NAME == <<78, 79>>

\* the bytes of a PPPoETag kept in the connection, as memcpy puts them on
\* the wire: ntohs(length) + TAG_HDR_SIZE bytes starting at the tag
WireTag(t) ==
    Tag(ntohs(t.type), SubSeq(t.payload, 1, ntohs(t.length)))

HostUniqTags(c) ==
    IF c.hostUniq # NULL THEN <<Tag(TAG_HOST_UNIQ, c.hostUniq)>> ELSE <<>>

MIN(x, y) == IF x < y THEN x ELSE y

\* the two bytes of a uint16_t that holds htons(v), as memcpy puts them on
\* the wire from a little-endian host
Bytes16(v) == <<htons(v) % 256, htons(v) \div 256>>

\* the PPP-Max-Payload tag of sendPADI and sendPADR (builds with PLUGIN)
MaxPayloadTags ==
    IF MIN(lcp_allowoptions.mru, lcp_wantoptions.mru) > ETH_PPPOE_MTU
    THEN <<Tag(TAG_PPP_MAX_PAYLOAD,
               Bytes16(MIN(lcp_allowoptions.mru, lcp_wantoptions.mru)))>>
    ELSE <<>>

PADIFrame(c) ==
    LET omit_service_name ==
            c.serviceName # NULL /\ c.serviceName = NO_SERVICE_NAME
        svc == IF omit_service_name THEN <<>>
               ELSE <<Tag(TAG_SERVICE_NAME,
                          IF c.serviceName # NULL THEN c.serviceName
                          ELSE <<>>)>>
    IN  Frame(BcastMac, c.myEth, CODE_PADI, 0,
              svc \o HostUniqTags(c) \o MaxPayloadTags)

PADRFrame(c) ==
    LET svc == <<Tag(TAG_SERVICE_NAME,
                     IF c.serviceName # NULL THEN c.serviceName ELSE <<>>)>>
        cookie == IF c.cookie.type # 0 THEN <<WireTag(c.cookie)>> ELSE <<>>
        relay == IF c.relayId.type # 0 THEN <<WireTag(c.relayId)>> ELSE <<>>
    IN  Frame(c.peerEth, c.myEth, CODE_PADR, 0,
              svc \o HostUniqTags(c) \o cookie \o relay \o MaxPayloadTags)

\* sendPADT (common.c): a PADT for the session, to the peer
PADTFrame(c) ==
    Frame(c.peerEth, c.myEth, CODE_PADT, ntohs(c.session), <<>>)
(***************************************************************************)
(* The body of the receive loop of waitForPADO for one delivered frame.    *)
(* Yields the connection after the frame and how the loop body ended:      *)
(* "continue" (next iteration), "break" (STATE_RECEIVED_PADO reached) or   *)
(* "exit" (a tag visitor called exit(EXIT_FAILURE)).                       *)
(***************************************************************************)
PADOCriteria(c) ==
    [conn |-> c, gotError |-> 0, seenACName |-> 0, seenServiceName |-> 0,
     acNameOK |-> IF c.acName # NULL THEN 0 ELSE 1,
     serviceNameOK |-> IF c.serviceName # NULL THEN 0 ELSE 1,
     exited |-> FALSE,
     lcp_allowoptions |-> lcp_allowoptions,
     lcp_wantoptions |-> lcp_wantoptions]

\* the loop body of waitForPADO where a probe lists a PADO without copying
\* its source MAC to peerEth
waitForPADOFrame_ProbeKeepsPeer(c, packet) ==
    IF packet.length + HDR_SIZE > packet.len
    THEN [conn |-> c, end |-> "continue",
          lcp_allowoptions |-> lcp_allowoptions,
          lcp_wantoptions |-> lcp_wantoptions]
    ELSE IF packetIsForMe(c, packet) = 0
    THEN [conn |-> c, end |-> "continue",
          lcp_allowoptions |-> lcp_allowoptions,
          lcp_wantoptions |-> lcp_wantoptions]
    ELSE IF packet.code # CODE_PADO
    THEN [conn |-> c, end |-> "continue",
          lcp_allowoptions |-> lcp_allowoptions,
          lcp_wantoptions |-> lcp_wantoptions]
    ELSE IF BROADCAST(packet.h_source)
    THEN [conn |-> c, end |-> "continue",
          lcp_allowoptions |-> lcp_allowoptions,
          lcp_wantoptions |-> lcp_wantoptions]
    ELSE IF /\ c.req_peer # 0
            /\ ~memcmpEq(packet.h_source, c.req_peer_mac, ETH_ALEN)
    THEN [conn |-> c, end |-> "continue",
          lcp_allowoptions |-> lcp_allowoptions,
          lcp_wantoptions |-> lcp_wantoptions]
    ELSE LET crit == parsePacket(packet.tags, "parsePADOTags", PADOCriteria(c))
             counted == [crit.conn EXCEPT !.numPADOs = @ + 1]
         IN  IF crit.exited THEN [conn |-> crit.conn, end |-> "exit",
                   lcp_allowoptions |-> crit.lcp_allowoptions,
                   lcp_wantoptions |-> crit.lcp_wantoptions]
             ELSE IF crit.gotError # 0
             THEN [conn |-> crit.conn, end |-> "continue",
                   lcp_allowoptions |-> crit.lcp_allowoptions,
                   lcp_wantoptions |-> crit.lcp_wantoptions]
             ELSE IF crit.seenACName = 0
             THEN [conn |-> crit.conn, end |-> "continue",
                   lcp_allowoptions |-> crit.lcp_allowoptions,
                   lcp_wantoptions |-> crit.lcp_wantoptions]
             ELSE IF crit.seenServiceName = 0
             THEN [conn |-> crit.conn, end |-> "continue",
                   lcp_allowoptions |-> crit.lcp_allowoptions,
                   lcp_wantoptions |-> crit.lcp_wantoptions]
             ELSE IF crit.acNameOK # 0 /\ crit.serviceNameOK # 0
             THEN IF c.printACNames # 0
                  THEN [conn |-> counted, end |-> "continue",
                   lcp_allowoptions |-> crit.lcp_allowoptions,
                   lcp_wantoptions |-> crit.lcp_wantoptions]
                  ELSE [conn |-> [counted EXCEPT
                                      !.peerEth = packet.h_source,
                                      !.discoveryState = STATE_RECEIVED_PADO],
                        end |-> "break",
                   lcp_allowoptions |-> crit.lcp_allowoptions,
                   lcp_wantoptions |-> crit.lcp_wantoptions]
             ELSE [conn |-> counted, end |-> "continue",
                   lcp_allowoptions |-> crit.lcp_allowoptions,
                   lcp_wantoptions |-> crit.lcp_wantoptions]

waitForPADOFrame(c, packet) ==
    IF packet.length + HDR_SIZE > packet.len
    THEN [conn |-> c, end |-> "continue",
          lcp_allowoptions |-> lcp_allowoptions,
          lcp_wantoptions |-> lcp_wantoptions]
    ELSE IF packetIsForMe(c, packet) = 0
    THEN [conn |-> c, end |-> "continue",
          lcp_allowoptions |-> lcp_allowoptions,
          lcp_wantoptions |-> lcp_wantoptions]
    ELSE IF packet.code # CODE_PADO
    THEN [conn |-> c, end |-> "continue",
          lcp_allowoptions |-> lcp_allowoptions,
          lcp_wantoptions |-> lcp_wantoptions]
    ELSE IF BROADCAST(packet.h_source)
    THEN [conn |-> c, end |-> "continue",
          lcp_allowoptions |-> lcp_allowoptions,
          lcp_wantoptions |-> lcp_wantoptions]
    ELSE IF /\ c.req_peer # 0
            /\ ~memcmpEq(packet.h_source, c.req_peer_mac, ETH_ALEN)
    THEN [conn |-> c, end |-> "continue",
          lcp_allowoptions |-> lcp_allowoptions,
          lcp_wantoptions |-> lcp_wantoptions]
    ELSE LET crit == parsePacket(packet.tags, "parsePADOTags", PADOCriteria(c))
             counted == [crit.conn EXCEPT !.numPADOs = @ + 1]
         IN  IF crit.exited THEN [conn |-> crit.conn, end |-> "exit",
                   lcp_allowoptions |-> crit.lcp_allowoptions,
                   lcp_wantoptions |-> crit.lcp_wantoptions]
             ELSE IF crit.gotError # 0
             THEN [conn |-> crit.conn, end |-> "continue",
                   lcp_allowoptions |-> crit.lcp_allowoptions,
                   lcp_wantoptions |-> crit.lcp_wantoptions]
             ELSE IF crit.seenACName = 0
             THEN [conn |-> crit.conn, end |-> "continue",
                   lcp_allowoptions |-> crit.lcp_allowoptions,
                   lcp_wantoptions |-> crit.lcp_wantoptions]
             ELSE IF crit.seenServiceName = 0
             THEN [conn |-> crit.conn, end |-> "continue",
                   lcp_allowoptions |-> crit.lcp_allowoptions,
                   lcp_wantoptions |-> crit.lcp_wantoptions]
             ELSE IF crit.acNameOK # 0 /\ crit.serviceNameOK # 0
             THEN IF c.printACNames # 0
                  THEN [conn |-> [counted EXCEPT !.peerEth = packet.h_source],
                        end |-> "continue",
                   lcp_allowoptions |-> crit.lcp_allowoptions,
                   lcp_wantoptions |-> crit.lcp_wantoptions]
                  ELSE [conn |-> [counted EXCEPT
                                      !.peerEth = packet.h_source,
                                      !.discoveryState = STATE_RECEIVED_PADO],
                        end |-> "break",
                   lcp_allowoptions |-> crit.lcp_allowoptions,
                   lcp_wantoptions |-> crit.lcp_wantoptions]
             ELSE [conn |-> counted, end |-> "continue",
                   lcp_allowoptions |-> crit.lcp_allowoptions,
                   lcp_wantoptions |-> crit.lcp_wantoptions]

(***************************************************************************)
(* The body of the receive loop of waitForPADS for one delivered frame:    *)
(* "continue" or "break" (STATE_SESSION reached).                          *)
(***************************************************************************)
\* the loop body of waitForPADS without the comparison of the source MAC
\* with peerEth
waitForPADSFrame_AnySource(c, packet) ==
    IF packet.length + HDR_SIZE > packet.len
    THEN [conn |-> c, end |-> "continue",
          lcp_allowoptions |-> lcp_allowoptions,
          lcp_wantoptions |-> lcp_wantoptions]
    ELSE IF packetIsForMe(c, packet) = 0
    THEN [conn |-> c, end |-> "continue",
          lcp_allowoptions |-> lcp_allowoptions,
          lcp_wantoptions |-> lcp_wantoptions]
    ELSE IF packet.code # CODE_PADS
    THEN [conn |-> c, end |-> "continue",
          lcp_allowoptions |-> lcp_allowoptions,
          lcp_wantoptions |-> lcp_wantoptions]
    ELSE LET parsed == parsePacket(packet.tags, "parsePADSTags",
                                   [conn |-> [c EXCEPT !.PADSHadError = 0],
                                    lcp_allowoptions |-> lcp_allowoptions,
                                    lcp_wantoptions |-> lcp_wantoptions])
         IN  IF parsed.conn.PADSHadError = 0
             THEN [conn |-> [parsed.conn EXCEPT
                                 !.discoveryState = STATE_SESSION],
                   end |-> "break",
                   lcp_allowoptions |-> parsed.lcp_allowoptions,
                   lcp_wantoptions |-> parsed.lcp_wantoptions]
             ELSE [conn |-> parsed.conn, end |-> "continue",
                   lcp_allowoptions |-> parsed.lcp_allowoptions,
                   lcp_wantoptions |-> parsed.lcp_wantoptions]

waitForPADSFrame(c, packet) ==
    IF packet.length + HDR_SIZE > packet.len
    THEN [conn |-> c, end |-> "continue",
          lcp_allowoptions |-> lcp_allowoptions,
          lcp_wantoptions |-> lcp_wantoptions]
    ELSE IF ~memcmpEq(packet.h_source, c.peerEth, ETH_ALEN)
    THEN [conn |-> c, end |-> "continue",
          lcp_allowoptions |-> lcp_allowoptions,
          lcp_wantoptions |-> lcp_wantoptions]
    ELSE IF packetIsForMe(c, packet) = 0
    THEN [conn |-> c, end |-> "continue",
          lcp_allowoptions |-> lcp_allowoptions,
          lcp_wantoptions |-> lcp_wantoptions]
    ELSE IF packet.code # CODE_PADS
    THEN [conn |-> c, end |-> "continue",
          lcp_allowoptions |-> lcp_allowoptions,
          lcp_wantoptions |-> lcp_wantoptions]
    ELSE LET parsed == parsePacket(packet.tags, "parsePADSTags",
                                   [conn |-> [c EXCEPT !.PADSHadError = 0],
                                    lcp_allowoptions |-> lcp_allowoptions,
                                    lcp_wantoptions |-> lcp_wantoptions])
         IN  IF parsed.conn.PADSHadError = 0
             THEN [conn |-> [parsed.conn EXCEPT
                                 !.discoveryState = STATE_SESSION],
                   end |-> "break",
                   lcp_allowoptions |-> parsed.lcp_allowoptions,
                   lcp_wantoptions |-> parsed.lcp_wantoptions]
             ELSE [conn |-> parsed.conn, end |-> "continue",
                   lcp_allowoptions |-> parsed.lcp_allowoptions,
                   lcp_wantoptions |-> parsed.lcp_wantoptions]

\* the session id converted to host byte order before it is stored
PADSSession_HostOrder(c, packet) ==
    [c EXCEPT !.session = ntohs(htons(packet.session))]

\* after the loop of waitForPADS: conn->session = packet.session, the
\* 16 bits as they lie in the frame (network byte order)
PADSSession(c, packet) == [c EXCEPT !.session = htons(packet.session)]

(***************************************************************************)
(* discovery(): control flow between the sends and the waits.              *)
(***************************************************************************)
\* the code after the PADI do-loop without the probe-mode exit
AfterPadiLoop_NoProbeExit(c, pa, t) ==
    /\ pc' = "padr_loop"
    /\ conn' = c
    /\ padiAttempts' = pa
    /\ timeout' = c.discoveryTimeout
    /\ padrAttempts' = 0
    /\ waitK' = 0

\* the code after the PADI do-loop: probe-mode exit, else the PADR phase
\* starts (timeout = discoveryTimeout, padrAttempts = 0)
AfterPadiLoop(c, pa, t) ==
    IF c.printACNames # 0
    THEN /\ pc' = IF c.numPADOs # 0 THEN "exit_success" ELSE "exit_failure"
         /\ conn' = c
         /\ padiAttempts' = pa
         /\ timeout' = t
         /\ UNCHANGED <<padrAttempts, waitK>>
    ELSE /\ pc' = "padr_loop"
         /\ conn' = c
         /\ padiAttempts' = pa
         /\ timeout' = c.discoveryTimeout
         /\ padrAttempts' = 0
         /\ waitK' = 0

\* the timeout doubled after every PADO wait, probing or not
PADOBackoff_ProbeToo(c, t) == t * 2

\* the timeout discovery() keeps after waitForPADO has returned
PADOBackoff(c, t) == IF c.printACNames = 0 THEN t * 2 ELSE t

\* waitForPADO has returned (by timeout or by break): the rest of the
\* PADI do-loop body and its loop condition
ReturnFromWaitForPADO(c) ==
    IF c.printACNames # 0 /\ c.numPADOs # 0
    THEN AfterPadiLoop(c, padiAttempts, PADOBackoff(c, timeout))
    ELSE IF c.discoveryState = STATE_SENT_PADI
    THEN /\ pc' = "padi_loop"
         /\ conn' = c
         /\ timeout' = PADOBackoff(c, timeout)
         /\ UNCHANGED <<padiAttempts, padrAttempts, waitK>>
    ELSE AfterPadiLoop(c, padiAttempts, PADOBackoff(c, timeout))

\* the timeout discovery() keeps after waitForPADS has returned
PADSBackoff(t) == t * 2

\* the end of discovery() without the RFC 4638 limit
LimitMRU_Never(c, opt) == opt

\* the end of discovery() (builds with PLUGIN): an MRU above ETH_PPPOE_MTU
\* is cut down to it unless seenMaxPayload is set
LimitMRU(c, opt) ==
    IF c.seenMaxPayload = 0 /\ opt.mru > ETH_PPPOE_MTU
    THEN [opt EXCEPT !.mru = ETH_PPPOE_MTU]
    ELSE opt

\* waitForPADS has returned: the rest of the PADR do-loop body, its loop
\* condition and the end of discovery()
\* (allow and want are lcp_allowoptions[0] and lcp_wantoptions[0] as
\* waitForPADS has left them)
ReturnFromWaitForPADS(c, allow, want) ==
    /\ timeout' = PADSBackoff(timeout)
    /\ UNCHANGED <<padiAttempts, padrAttempts, waitK>>
    /\ IF c.discoveryState = STATE_SENT_PADR
       THEN /\ pc' = "padr_loop"
            /\ conn' = c
            /\ lcp_allowoptions' = allow
            /\ lcp_wantoptions' = want
       ELSE /\ pc' = "returned"
            /\ conn' = [c EXCEPT !.discoveryState = STATE_SESSION]
            /\ lcp_allowoptions' = LimitMRU(c, allow)
            /\ lcp_wantoptions' = LimitMRU(c, want)
(***************************************************************************)
(* The frames the socket may deliver, and the configurations of a call.    *)
(***************************************************************************)
HU == <<7>>
HU_LONG == <<7, 7>>
AC_A == <<65>>
AC_AB == <<65, 66>>
SV_S == <<83>>
SV_ST == <<83, 84>>
COOKIE_1 == <<222, 173>>
COOKIE_2 == <<190>>
RELAY_1 == <<1>>
RELAY_2 == <<2, 2>>

PADOTagLists ==
    { <<Tag(TAG_AC_NAME, AC_A), Tag(TAG_SERVICE_NAME, SV_S)>>,
      <<Tag(TAG_AC_NAME, AC_A), Tag(TAG_SERVICE_NAME, SV_S),
        Tag(TAG_AC_COOKIE, COOKIE_1), Tag(TAG_RELAY_SESSION_ID, RELAY_1)>>,
      <<Tag(TAG_AC_NAME, AC_AB), Tag(TAG_SERVICE_NAME, SV_S),
        Tag(TAG_AC_COOKIE, COOKIE_2)>>,
      <<Tag(TAG_AC_NAME, AC_A), Tag(TAG_SERVICE_NAME, SV_ST),
        Tag(TAG_RELAY_SESSION_ID, RELAY_2)>>,
      <<Tag(TAG_AC_NAME, AC_A), Tag(TAG_AC_COOKIE, COOKIE_2)>>,
      <<Tag(TAG_SERVICE_NAME, SV_S)>>,
      <<Tag(TAG_AC_NAME, AC_A), Tag(TAG_SERVICE_NAME, SV_S),
        Tag(TAG_AC_COOKIE, COOKIE_2), Tag(TAG_GENERIC_ERROR, <<>>)>>,
      <<Tag(TAG_AC_SYSTEM_ERROR, <<98>>), Tag(TAG_AC_NAME, AC_A),
        Tag(TAG_SERVICE_NAME, SV_S)>>,
      <<Tag(TAG_SERVICE_NAME_ERROR, <<>>)>> }

PADSTagLists ==
    { <<Tag(TAG_RELAY_SESSION_ID, RELAY_2), Tag(TAG_GENERIC_ERROR, <<>>)>>,
      <<Tag(TAG_AC_SYSTEM_ERROR, <<98>>)>>,
      <<Tag(TAG_SERVICE_NAME_ERROR, <<>>), Tag(TAG_SERVICE_NAME, SV_S)>> }

WithHostUniq(lists) == { <<Tag(TAG_HOST_UNIQ, HU)>> \o t : t \in lists }

\* a frame whose length field promises more bytes than were delivered
Truncated(f) == [f EXCEPT !.len = @ - 1]

SessionIds == {0, 66, 65535}

GoodPADOTags == <<Tag(TAG_AC_NAME, AC_A), Tag(TAG_SERVICE_NAME, SV_S)>>
GoodPADSTags == <<Tag(TAG_SERVICE_NAME, SV_S)>>

Frames ==
    { Frame(MyMac, AC1Mac, CODE_PADO, 0, t) : t \in WithHostUniq(PADOTagLists) }
    \cup
    { Frame(MyMac, AC1Mac, CODE_PADO, 0, GoodPADOTags),
      Frame(MyMac, AC2Mac, CODE_PADO, 0,
            <<Tag(TAG_HOST_UNIQ, HU)>> \o GoodPADOTags),
      Frame(MyMac, AC2Mac, CODE_PADO, 0,
            <<Tag(TAG_HOST_UNIQ, HU), Tag(TAG_AC_NAME, AC_A),
              Tag(TAG_GENERIC_ERROR, <<>>)>>),
      Frame(MyMac, AC1Mac, CODE_PADO, 0,
            <<Tag(TAG_HOST_UNIQ, HU_LONG)>> \o GoodPADOTags),
      Frame(OtherMac, AC1Mac, CODE_PADO, 0,
            <<Tag(TAG_HOST_UNIQ, HU)>> \o GoodPADOTags),
      Frame(MyMac, BcastMac, CODE_PADO, 0,
            <<Tag(TAG_HOST_UNIQ, HU)>> \o GoodPADOTags),
      Truncated(Frame(MyMac, AC1Mac, CODE_PADO, 0,
            <<Tag(TAG_HOST_UNIQ, HU)>> \o GoodPADOTags)) }
    \cup
    { Frame(MyMac, AC1Mac, CODE_PADS, sid,
            <<Tag(TAG_HOST_UNIQ, HU)>> \o GoodPADSTags) : sid \in SessionIds }
    \cup
    { Frame(MyMac, AC1Mac, CODE_PADS, 66, t) : t \in WithHostUniq(PADSTagLists) }
    \cup
    { Frame(MyMac, AC1Mac, CODE_PADS, 66, GoodPADSTags),
      Frame(MyMac, ZeroMac, CODE_PADS, 66,
            <<Tag(TAG_HOST_UNIQ, HU)>> \o GoodPADSTags) }

\* conn->discoveryTimeout
Timeouts == {5}

\* the connection as the caller hands it to discovery(): zeroed, with the
\* configuration filled in (a required peer is tried without name filters)
Connections ==
    { c \in { [myEth |-> MyMac, peerEth |-> ZeroMac,
       hostUniq |-> hu, acName |-> an, serviceName |-> sn,
       printACNames |-> pr, skipDiscovery |-> sk, killSession |-> ki,
       discoveryTimeout |-> dt, req_peer |-> rp, req_peer_mac |-> AC1Mac,
       cookie |-> NoTag, relayId |-> NoTag, session |-> 0,
       discoveryState |-> STATE_INITIAL, numPADOs |-> 0, PADSHadError |-> 0,
       seenMaxPayload |-> 0] :
        hu \in {NULL, HU}, an \in {NULL, AC_A}, sn \in {NULL, SV_S},
        pr \in {0, 1}, sk \in {0, 1}, ki \in {0, 1}, dt \in Timeouts,
        rp \in {0, 1} } :
      /\ c.req_peer # 0 => c.acName = NULL /\ c.serviceName = NULL
      /\ c.skipDiscovery # 0 =>
            c.req_peer = 0 /\ c.hostUniq = NULL /\ c.acName = NULL
      /\ c.killSession # 0 => c.skipDiscovery # 0 }

\* a delivered PADO or PADS with a PPP-Max-Payload tag of two bytes that
\* announce at least ETH_PPPOE_MTU
CarriesMaxPayload(f) ==
    /\ f.code \in {CODE_PADO, CODE_PADS}
    /\ \E i \in 1..Len(f.tags) :
          /\ f.tags[i].type = TAG_PPP_MAX_PAYLOAD
          /\ Len(f.tags[i].data) = 2
          /\ f.tags[i].data[1] * 256 + f.tags[i].data[2] >= ETH_PPPOE_MTU

\* lcp_allowoptions[0] / lcp_wantoptions[0] of a stack that stays within
\* the classic PPPoE limit
ClassicMRU == [mru |-> ETH_PPPOE_MTU]

Init ==
    /\ persist \in {0, 1}
    /\ conn \in Connections
    /\ lcp_allowoptions = ClassicMRU
    /\ lcp_wantoptions = ClassicMRU
    /\ maxPayloadRcvd = FALSE
    /\ padiAttempts = 0
    /\ padrAttempts = 0
    /\ timeout = 0
    /\ pc = "entry"
    /\ sent = NoFrame
    /\ nPADI = 0
    /\ nPADR = 0
    /\ nPADT = 0
    /\ nrecv = 0
    /\ rcvd = NoFrame
    /\ acceptedPADO = NoFrame
    /\ waitK = 0
    /\ now = [tv_sec |-> 0, tv_usec |-> 0]
    /\ expire_at = [tv_sec |-> 0, tv_usec |-> 0]
    /\ tv = [tv_sec |-> 0, tv_usec |-> 0]
    /\ wpc = "idle"

(***************************************************************************)
(* Actions.                                                                *)
(***************************************************************************)
\* discovery() up to the label SEND_PADI where sendPADT is followed by a
\* return instead of exit(EXIT_SUCCESS)
Entry_KillReturns ==
    /\ pc = "entry"
    /\ timeout' = conn.discoveryTimeout
    /\ conn' = IF conn.skipDiscovery # 0
               THEN [conn EXCEPT !.discoveryState = STATE_SESSION]
               ELSE conn
    /\ pc' = IF conn.skipDiscovery = 0 THEN "padi_loop" ELSE "returned"
    /\ padiAttempts' = 0
    /\ sent' = IF conn.skipDiscovery # 0 /\ conn.killSession # 0
               THEN PADTFrame(conn) ELSE sent
    /\ nPADT' = IF conn.skipDiscovery # 0 /\ conn.killSession # 0
                THEN nPADT + 1 ELSE nPADT
    /\ UNCHANGED <<lcpVars, timerVars>>
    /\ UNCHANGED <<persist, padrAttempts, nPADI, nPADR, nrecv, rcvd,
                   acceptedPADO, waitK>>

\* discovery() up to the label SEND_PADI (the skip-discovery shortcut)
Entry ==
    /\ pc = "entry"
    /\ timeout' = conn.discoveryTimeout
    /\ conn' = IF conn.skipDiscovery # 0
               THEN [conn EXCEPT !.discoveryState = STATE_SESSION]
               ELSE conn
    /\ pc' = IF conn.skipDiscovery = 0 THEN "padi_loop"
             ELSE IF conn.killSession # 0 THEN "exit_success"
             ELSE "returned"
    /\ padiAttempts' = 0
    /\ sent' = IF conn.skipDiscovery # 0 /\ conn.killSession # 0
               THEN PADTFrame(conn) ELSE sent
    /\ nPADT' = IF conn.skipDiscovery # 0 /\ conn.killSession # 0
                THEN nPADT + 1 ELSE nPADT
    /\ UNCHANGED <<lcpVars, timerVars>>
    /\ UNCHANGED <<persist, padrAttempts, nPADI, nPADR, nrecv, rcvd,
                   acceptedPADO, waitK>>

\* one pass through the top of the PADI do-loop: count the attempt, give up
\* or start over when the attempts are used up, else send PADI and enter
\* waitForPADO
PadiLoop ==
    /\ pc = "padi_loop"
    /\ rcvd' = NoFrame
    /\ UNCHANGED <<lcpVars, timerVars>>
    /\ UNCHANGED <<persist, nPADR, nPADT, nrecv, acceptedPADO>>
    /\ IF padiAttempts + 1 > MAX_PADI_ATTEMPTS /\ persist = 0
       THEN /\ AfterPadiLoop(conn, padiAttempts + 1, timeout)
            /\ UNCHANGED <<sent, nPADI>>
       ELSE /\ nPADI + nPADR < MaxSent
            /\ padiAttempts' = IF padiAttempts + 1 > MAX_PADI_ATTEMPTS
                               THEN 0 ELSE padiAttempts + 1
            /\ timeout' = IF padiAttempts + 1 > MAX_PADI_ATTEMPTS
                          THEN conn.discoveryTimeout ELSE timeout
            /\ waitK' = IF padiAttempts + 1 > MAX_PADI_ATTEMPTS
                        THEN 1 ELSE waitK + 1
            /\ sent' = PADIFrame(conn)
            /\ nPADI' = nPADI + 1
            /\ conn' = [conn EXCEPT !.discoveryState = STATE_SENT_PADI,
                                    !.seenMaxPayload = 0]
            /\ pc' = "waitForPADO"
            /\ UNCHANGED padrAttempts

\* waitForPADO: the socket delivers frame f before the deadline
RecvPADO(f) ==
    /\ pc = "waitForPADO"
    /\ nrecv < MaxRecv
    /\ nrecv' = nrecv + 1
    /\ rcvd' = f
    /\ maxPayloadRcvd' = (maxPayloadRcvd \/ CarriesMaxPayload(f))
    /\ UNCHANGED timerVars
    /\ UNCHANGED <<persist, sent, nPADI, nPADR, nPADT>>
    /\ LET r == waitForPADOFrame(conn, f)
       IN  /\ lcp_allowoptions' = r.lcp_allowoptions
           /\ lcp_wantoptions' = r.lcp_wantoptions
           /\ IF r.end = "exit"
              THEN /\ pc' = "exit_failure"
                   /\ conn' = r.conn
                   /\ UNCHANGED <<padiAttempts, padrAttempts, timeout, waitK,
                                  acceptedPADO>>
              ELSE IF r.end = "break"
              THEN /\ ReturnFromWaitForPADO(r.conn)
                   /\ acceptedPADO' = f
              ELSE /\ conn' = r.conn
                   /\ UNCHANGED <<pc, padiAttempts, padrAttempts, timeout,
                                  waitK, acceptedPADO>>

\* waitForPADO: the deadline passes (time_left or select reports it)
TimeoutPADO ==
    /\ pc = "waitForPADO"
    /\ rcvd' = NoFrame
    /\ ReturnFromWaitForPADO(conn)
    /\ UNCHANGED <<lcpVars, timerVars>>
    /\ UNCHANGED <<persist, sent, nPADI, nPADR, nPADT, nrecv,
                   acceptedPADO>>

\* the PADR attempts used up: return from discovery(), persistent or not
PadrAttemptsExhausted_Return ==
    /\ UNCHANGED <<conn, sent, nPADR>>
    /\ padrAttempts' = padrAttempts + 1
    /\ pc' = "returned"
    /\ UNCHANGED <<padiAttempts, timeout, waitK, acceptedPADO>>

\* the PADR attempts used up: back to SEND_PADI, persistent or not
PadrAttemptsExhausted_Restart ==
    /\ UNCHANGED <<conn, sent, nPADR>>
    /\ padrAttempts' = 0
    /\ timeout' = conn.discoveryTimeout
    /\ padiAttempts' = 0
    /\ pc' = "padi_loop"
    /\ waitK' = 0
    /\ acceptedPADO' = NoFrame

\* padrAttempts has passed MAX_PADI_ATTEMPTS: go back to SEND_PADI in
\* persistent mode, else return from discovery()
PadrAttemptsExhausted ==
    /\ UNCHANGED <<conn, sent, nPADR>>
    /\ IF persist # 0
       THEN /\ padrAttempts' = 0
            /\ timeout' = conn.discoveryTimeout
            /\ padiAttempts' = 0
            /\ pc' = "padi_loop"
            /\ waitK' = 0
            /\ acceptedPADO' = NoFrame
       ELSE /\ padrAttempts' = padrAttempts + 1
            /\ pc' = "returned"
            /\ UNCHANGED <<padiAttempts, timeout, waitK, acceptedPADO>>

\* one pass through the top of the PADR do-loop: count the attempt, give up
\* when the attempts are used up, else send PADR and enter waitForPADS
PadrLoop ==
    /\ pc = "padr_loop"
    /\ rcvd' = NoFrame
    /\ UNCHANGED <<lcpVars, timerVars>>
    /\ UNCHANGED <<persist, nPADI, nPADT, nrecv>>
    /\ IF padrAttempts + 1 > MAX_PADI_ATTEMPTS
       THEN PadrAttemptsExhausted
       ELSE /\ nPADI + nPADR < MaxSent
            /\ padrAttempts' = padrAttempts + 1
            /\ sent' = PADRFrame(conn)
            /\ nPADR' = nPADR + 1
            /\ conn' = [conn EXCEPT !.discoveryState = STATE_SENT_PADR]
            /\ pc' = "waitForPADS"
            /\ waitK' = waitK + 1
            /\ UNCHANGED <<padiAttempts, timeout, acceptedPADO>>

\* waitForPADS: the socket delivers frame f before the deadline
RecvPADS(f) ==
    /\ pc = "waitForPADS"
    /\ nrecv < MaxRecv
    /\ nrecv' = nrecv + 1
    /\ rcvd' = f
    /\ maxPayloadRcvd' = (maxPayloadRcvd \/ CarriesMaxPayload(f))
    /\ UNCHANGED timerVars
    /\ UNCHANGED <<persist, sent, nPADI, nPADR, nPADT, acceptedPADO>>
    /\ LET r == waitForPADSFrame(conn, f)
       IN  IF r.end = "break"
           THEN ReturnFromWaitForPADS(PADSSession(r.conn, f),
                                      r.lcp_allowoptions, r.lcp_wantoptions)
           ELSE /\ conn' = r.conn
                /\ lcp_allowoptions' = r.lcp_allowoptions
                /\ lcp_wantoptions' = r.lcp_wantoptions
                /\ UNCHANGED <<pc, padiAttempts, padrAttempts, timeout, waitK>>

\* waitForPADS: the deadline passes
TimeoutPADS ==
    /\ pc = "waitForPADS"
    /\ rcvd' = NoFrame
    /\ ReturnFromWaitForPADS(conn, lcp_allowoptions, lcp_wantoptions)
    /\ UNCHANGED <<maxPayloadRcvd, timerVars>>
    /\ UNCHANGED <<persist, sent, nPADI, nPADR, nPADT, nrecv,
                   acceptedPADO>>

Next ==
    \/ Entry
    \/ PadiLoop
    \/ \E f \in Frames : RecvPADO(f)
    \/ TimeoutPADO
    \/ PadrLoop
    \/ \E f \in Frames : RecvPADS(f)
    \/ TimeoutPADS

Spec == Init /\ [][Next]_vars

\* the calls that connect (printACNames = 0) with persist = 0, where every
\* timed wait ends by its deadline and discovery() itself keeps running
\* between the waits
NonPersistentInit == Init /\ persist = 0 /\ conn.printACNames = 0

NonPersistentFairSpec ==
    /\ NonPersistentInit
    /\ [][Next]_vars
    /\ WF_vars(Entry)
    /\ WF_vars(PadiLoop)
    /\ WF_vars(TimeoutPADO)
    /\ WF_vars(PadrLoop)
    /\ WF_vars(TimeoutPADS)

\* the same with persist set
PersistentInit == Init /\ persist # 0 /\ conn.printACNames = 0

PersistentFairSpec ==
    /\ PersistentInit
    /\ [][Next]_vars
    /\ WF_vars(Entry)
    /\ WF_vars(PadiLoop)
    /\ WF_vars(TimeoutPADO)
    /\ WF_vars(PadrLoop)
    /\ WF_vars(TimeoutPADS)

(***************************************************************************)
(* The timed receiver: one call waitForPADO(conn, timeout) or              *)
(* waitForPADS(conn, timeout) against the clock.  Times are struct timeval *)
(* values; the clock moves in steps of half a second.                      *)
(***************************************************************************)
\* latest second the clock is followed to
MaxNow == 4

\* microseconds in a second (the literal 1000000 of time_left)
USEC_PER_SEC == 1000000

ClockStep == USEC_PER_SEC \div 2

timeval(sec, usec) == [tv_sec |-> sec, tv_usec |-> usec]

\* a timeval with 0 <= tv_usec < 1000000 as a count of microseconds, and
\* back
Usecs(t) == t.tv_sec * USEC_PER_SEC + t.tv_usec

FromUsecs(u) == timeval(u \div USEC_PER_SEC, u % USEC_PER_SEC)

\* time_left(&tv, &expire_at) when gettimeofday() gives n: the return value
\* and what is left in *tv
time_left(n, e) ==
    LET sec  == e.tv_sec - n.tv_sec
        usec == e.tv_usec - n.tv_usec
    IN  IF usec < 0
        THEN IF sec # 0
             THEN LET t == timeval(sec - 1, usec + USEC_PER_SEC)
                  IN  IF t.tv_sec <= 0 /\ t.tv_usec <= 0
                      THEN [ret |-> 0, tv |-> t]
                      ELSE [ret |-> 1, tv |-> t]
             ELSE [ret |-> 0, tv |-> timeval(sec, usec + USEC_PER_SEC)]
        ELSE IF sec <= 0 /\ usec <= 0
             THEN [ret |-> 0, tv |-> timeval(sec, usec)]
             ELSE [ret |-> 1, tv |-> timeval(sec, usec)]

\* the timeout argument of the wait
WaitTimeouts == {1, 2}

\* the connection of the wait followed: no filters, no Host-Uniq
PlainConnection ==
    CHOOSE c \in Connections :
        /\ c.hostUniq = NULL /\ c.acName = NULL /\ c.serviceName = NULL
        /\ c.printACNames = 0 /\ c.skipDiscovery = 0 /\ c.killSession = 0
        /\ c.req_peer = 0

\* discovery() has sent its first PADI and calls waitForPADO(conn, timeout)
TimerInit ==
    /\ persist = 0
    /\ lcp_allowoptions = ClassicMRU
    /\ lcp_wantoptions = ClassicMRU
    /\ maxPayloadRcvd = FALSE
    /\ conn = [PlainConnection EXCEPT !.discoveryState = STATE_SENT_PADI]
    /\ padiAttempts = 1
    /\ padrAttempts = 0
    /\ timeout \in WaitTimeouts
    /\ pc = "waitForPADO"
    /\ sent = PADIFrame(PlainConnection)
    /\ nPADI = 1
    /\ nPADR = 0
    /\ nPADT = 0
    /\ nrecv = 0
    /\ rcvd = NoFrame
    /\ acceptedPADO = NoFrame
    /\ waitK = 1
    /\ now \in {timeval(0, 0), timeval(0, ClockStep)}
    /\ expire_at = timeval(0, 0)
    /\ tv = timeval(0, 0)
    /\ wpc = "enter"

\* gettimeofday(&expire_at); expire_at.tv_sec += timeout
WaitEnter ==
    /\ wpc = "enter"
    /\ expire_at' = timeval(now.tv_sec + timeout, now.tv_usec)
    /\ wpc' = "time_left"
    /\ UNCHANGED <<now, tv>>
    /\ UNCHANGED <<discoveryVars, lcpVars>>

\* time passes while the process is between two system calls (it handles
\* a frame, writes a log line, or is not scheduled)
Elapse ==
    /\ wpc \in {"enter", "time_left"}
    /\ now.tv_sec < MaxNow
    /\ now' = FromUsecs(Usecs(now) + ClockStep)
    /\ UNCHANGED <<expire_at, tv, wpc>>
    /\ UNCHANGED <<discoveryVars, lcpVars>>

\* the top of the receive loop: if (!time_left(&tv, &expire_at)) return
TimeLeft ==
    /\ wpc = "time_left"
    /\ LET res == time_left(now, expire_at)
       IN  /\ tv' = res.tv
           /\ wpc' = IF res.ret = 0 THEN "timed_out" ELSE "select"
    /\ UNCHANGED <<now, expire_at>>
    /\ UNCHANGED <<discoveryVars, lcpVars>>

\* select() is interrupted by a signal after e microseconds (-1, EINTR) and
\* is called again with tv as the failed call left it, which is unspecified:
\* untouched, or counted down by the time slept
SelectEINTR(e) ==
    /\ wpc = "select"
    /\ tv.tv_sec >= 0
    /\ e < Usecs(tv)
    /\ now.tv_sec < MaxNow
    /\ now' = FromUsecs(Usecs(now) + e)
    /\ tv' \in {tv, FromUsecs(Usecs(tv) - e)}
    /\ UNCHANGED <<expire_at, wpc>>
    /\ UNCHANGED <<discoveryVars, lcpVars>>

\* select() reports the socket readable after e microseconds; the frame is
\* received and the loop goes round (a dropped frame) or ends (a frame that
\* changes the state)
SelectReadable(e) ==
    /\ wpc = "select"
    /\ tv.tv_sec >= 0
    /\ e < Usecs(tv)
    /\ now' = FromUsecs(Usecs(now) + e)
    /\ wpc' \in {"time_left", "done"}
    /\ UNCHANGED <<expire_at, tv>>
    /\ UNCHANGED <<discoveryVars, lcpVars>>

\* select() sleeps for the whole of tv and returns 0: the wait returns
SelectTimeout ==
    /\ wpc = "select"
    /\ tv.tv_sec >= 0
    /\ now' = FromUsecs(Usecs(now) + Usecs(tv))
    /\ wpc' = "timed_out"
    /\ UNCHANGED <<expire_at, tv>>
    /\ UNCHANGED <<discoveryVars, lcpVars>>

\* select() refuses a negative interval (-1, EINVAL): fatalSys
SelectInvalid ==
    /\ wpc = "select"
    /\ tv.tv_sec < 0
    /\ wpc' = "fatal"
    /\ UNCHANGED <<now, expire_at, tv>>
    /\ UNCHANGED <<discoveryVars, lcpVars>>

\* the times after which select() may come back early
Elapsed == {0, ClockStep, 2 * ClockStep, 3 * ClockStep}

TimerNext ==
    \/ WaitEnter
    \/ Elapse
    \/ TimeLeft
    \/ \E e \in Elapsed : SelectEINTR(e)
    \/ \E e \in Elapsed : SelectReadable(e)
    \/ SelectTimeout
    \/ SelectInvalid

TimerSpec == TimerInit /\ [][TimerNext]_vars

(***************************************************************************)
(* discovery() under a PPP stack whose MRUs may exceed ETH_PPPOE_MTU       *)
(* (RFC 4638), with access concentrators that may announce                 *)
(* PPP-Max-Payload: the actions of discovery() on a plain connection.      *)
(***************************************************************************)
\* lcp_allowoptions[0].mru / lcp_wantoptions[0].mru at the call
MRUs == {ETH_PPPOE_MTU, 1500, 1508}

\* a PPP-Max-Payload tag that announces v (two bytes, big-endian)
MaxPayload(v) == Tag(TAG_PPP_MAX_PAYLOAD, <<v \div 256, v % 256>>)

MruFrames ==
    { Frame(MyMac, AC1Mac, CODE_PADO, 0, GoodPADOTags),
      Frame(MyMac, AC1Mac, CODE_PADO, 0, GoodPADOTags \o <<MaxPayload(1500)>>),
      Frame(MyMac, AC1Mac, CODE_PADO, 0, GoodPADOTags \o <<MaxPayload(1400)>>),
      Frame(MyMac, AC1Mac, CODE_PADO, 0,
            GoodPADOTags \o <<Tag(TAG_PPP_MAX_PAYLOAD, <<220>>)>>),
      Frame(MyMac, AC2Mac, CODE_PADO, 0,
            <<Tag(TAG_AC_NAME, AC_A), MaxPayload(1500)>>),
      Frame(MyMac, AC1Mac, CODE_PADS, 66, GoodPADSTags),
      Frame(MyMac, AC1Mac, CODE_PADS, 66, GoodPADSTags \o <<MaxPayload(1500)>>),
      Frame(MyMac, AC1Mac, CODE_PADS, 66,
            <<MaxPayload(1492), Tag(TAG_GENERIC_ERROR, <<>>)>>) }

MruInit ==
    /\ persist \in {0, 1}
    /\ conn = PlainConnection
    /\ lcp_allowoptions \in { [mru |-> m] : m \in MRUs }
    /\ lcp_wantoptions \in { [mru |-> m] : m \in MRUs }
    /\ maxPayloadRcvd = FALSE
    /\ padiAttempts = 0
    /\ padrAttempts = 0
    /\ timeout = 0
    /\ pc = "entry"
    /\ sent = NoFrame
    /\ nPADI = 0
    /\ nPADR = 0
    /\ nPADT = 0
    /\ nrecv = 0
    /\ rcvd = NoFrame
    /\ acceptedPADO = NoFrame
    /\ waitK = 0
    /\ now = timeval(0, 0)
    /\ expire_at = timeval(0, 0)
    /\ tv = timeval(0, 0)
    /\ wpc = "idle"

MruNext ==
    \/ Entry
    \/ PadiLoop
    \/ \E f \in MruFrames : RecvPADO(f)
    \/ TimeoutPADO
    \/ PadrLoop
    \/ \E f \in MruFrames : RecvPADS(f)
    \/ TimeoutPADS

MruSpec == MruInit /\ [][MruNext]_vars

(***************************************************************************)
(* Vocabulary of the properties: what a frame carries, read off the frame  *)
(* itself.                                                                 *)
(***************************************************************************)
ErrorTagTypes ==
    {TAG_SERVICE_NAME_ERROR, TAG_AC_SYSTEM_ERROR, TAG_GENERIC_ERROR}

\* the tags of type t in frame f, in order
TagsOfType(f, t) == SelectSeq(f.tags, LAMBDA x : x.type = t)

HasTag(f, t) == \E i \in DOMAIN f.tags : f.tags[i].type = t

HasErrorTag(f) == \E i \in DOMAIN f.tags : f.tags[i].type \in ErrorTagTypes

\* f carries a Host-Uniq tag whose value is exactly hu
HasHostUniq(f, hu) ==
    \E i \in DOMAIN f.tags :
        f.tags[i].type = TAG_HOST_UNIQ /\ f.tags[i].data = hu

\* the length field of f fits the bytes delivered
WellFormed(f) == f.length + HDR_SIZE <= f.len

\* the step delivers a frame to the receive loop
Delivered == nrecv' = nrecv + 1

\* T * 2^(k-1)
Doubled(T, k) == T * 2 ^ (k - 1)

(***************************************************************************)
(* C1: with persist = 0 and printACNames = 0, once MAX_PADI_ATTEMPTS PADIs *)
(* have timed out without an acceptable PADO, discovery() returns without  *)
(* a session and no PADR is sent.                                          *)
(***************************************************************************)
C1_NoPADRAfterPADITimeout ==
    ( /\ persist = 0
      /\ conn.printACNames = 0
      /\ conn.skipDiscovery = 0
      /\ acceptedPADO = NoFrame
      /\ padiAttempts > MAX_PADI_ATTEMPTS )
    => /\ nPADR = 0
       /\ conn.discoveryState # STATE_SESSION

(***************************************************************************)
(* C2: every PADR carries an AC-Cookie tag (a Relay-Session-Id tag) if and *)
(* only if the accepted PADO carried one, with the length and bytes of     *)
(* that PADO's tag.                                                        *)
(***************************************************************************)
C2_PADREchoesAcceptedPADO ==
    (sent.code = CODE_PADR /\ acceptedPADO # NoFrame)
    => /\ TagsOfType(sent, TAG_AC_COOKIE)
            = TagsOfType(acceptedPADO, TAG_AC_COOKIE)
       /\ TagsOfType(sent, TAG_RELAY_SESSION_ID)
            = TagsOfType(acceptedPADO, TAG_RELAY_SESSION_ID)

(***************************************************************************)
(* C3: with hostUniq configured, a frame delivered in waitForPADO or       *)
(* waitForPADS that has no Host-Uniq tag equal to hostUniq in length and   *)
(* bytes is dropped: discoveryState keeps its value and the wait goes on.  *)
(***************************************************************************)
C3_HostUniqRequired ==
    [][ ( /\ Delivered
          /\ conn.hostUniq # NULL
          /\ ~HasHostUniq(rcvd', conn.hostUniq) )
        => /\ conn'.discoveryState = conn.discoveryState
           /\ conn.discoveryState \in {STATE_SENT_PADI, STATE_SENT_PADR}
           /\ pc' = pc ]_vars

\* a PADS from the peer, to this host, without error tags and without any
\* Host-Uniq tag has been delivered in STATE_SENT_PADR and was dropped
C3_Witness ==
    /\ conn.hostUniq # NULL
    /\ pc = "waitForPADS"
    /\ conn.discoveryState = STATE_SENT_PADR
    /\ rcvd.code = CODE_PADS
    /\ rcvd.h_source = conn.peerEth
    /\ rcvd.h_dest = conn.myEth
    /\ ~HasErrorTag(rcvd)
    /\ ~HasTag(rcvd, TAG_HOST_UNIQ)

(***************************************************************************)
(* C4 as stated: in persistent mode, when the PADR attempts are used up,   *)
(* discoveryState reverts to Initial and the PADI phase restarts with      *)
(* attempt counter 0 and timeout = discoveryTimeout.                       *)
(***************************************************************************)
C4_RevertsToInitial ==
    [][ ( /\ pc = "padr_loop"
          /\ persist # 0
          /\ padrAttempts + 1 > MAX_PADI_ATTEMPTS )
        => /\ pc' = "padi_loop"
           /\ conn'.discoveryState = STATE_INITIAL
           /\ padiAttempts' = 0
           /\ timeout' = conn.discoveryTimeout ]_vars

(***************************************************************************)
(* C4 as amended: in persistent mode, when the PADR attempts are used up,  *)
(* discovery() does not return; it goes back to SEND_PADI with attempt     *)
(* counter 0 and timeout = discoveryTimeout, sending nothing and leaving   *)
(* the connection (discoveryState = SentPADR) as it is, and the next step  *)
(* sends a PADI and sets discoveryState to SentPADI.                       *)
(***************************************************************************)
C4_RestartsPADI ==
    [][ /\ ( /\ pc = "padr_loop"
             /\ persist # 0
             /\ padrAttempts + 1 > MAX_PADI_ATTEMPTS )
           => /\ pc' = "padi_loop"
              /\ padiAttempts' = 0
              /\ timeout' = conn.discoveryTimeout
              /\ conn' = conn
              /\ conn.discoveryState = STATE_SENT_PADR
              /\ sent' = sent
        /\ ( /\ pc = "padi_loop"
             /\ persist # 0
             /\ padiAttempts = 0 )
           => /\ sent'.code = CODE_PADI
              /\ nPADI' = nPADI + 1
              /\ nPADR' = nPADR
              /\ conn'.discoveryState = STATE_SENT_PADI
              /\ pc' = "waitForPADO" ]_vars

\* the PADR phase was used up and the PADI of the new round has been sent
C4_Witness ==
    /\ persist # 0
    /\ nPADR = MAX_PADI_ATTEMPTS
    /\ padrAttempts = 0
    /\ sent.code = CODE_PADI
    /\ padiAttempts = 1
    /\ timeout = conn.discoveryTimeout
    /\ conn.discoveryState = STATE_SENT_PADI

(***************************************************************************)
(* C5: with persist = 0, the k-th wait of the PADI phase lasts             *)
(* discoveryTimeout * 2^(k-1) (discoveryTimeout for every k in probe       *)
(* mode), and the k-th wait of the PADR phase lasts                        *)
(* discoveryTimeout * 2^(k-1), whatever the PADI phase had reached.        *)
(***************************************************************************)
C5_Backoff ==
    persist = 0 =>
        /\ pc = "waitForPADO" =>
              timeout = IF conn.printACNames # 0 THEN conn.discoveryTimeout
                        ELSE Doubled(conn.discoveryTimeout, waitK)
        /\ pc = "waitForPADS" =>
              timeout = Doubled(conn.discoveryTimeout, waitK)

\* the PADO was accepted in the third PADI wait (timeout 4T), and the PADR
\* phase is in its second wait
C5_Witness ==
    /\ persist = 0
    /\ pc = "waitForPADS"
    /\ padiAttempts = MAX_PADI_ATTEMPTS
    /\ acceptedPADO # NoFrame
    /\ waitK = 2
    /\ timeout = 2 * conn.discoveryTimeout

(***************************************************************************)
(* C6 as stated: once a PADO from MAC m has been accepted, a PADS without  *)
(* error tags from m to myEth delivered in SentPADR makes discovery()      *)
(* return with discoveryState = Session, the session id of that PADS       *)
(* (whatever its 16 bits) and peerEth = m.                                 *)
(***************************************************************************)
PADSFromAcceptedPeer(f) ==
    /\ acceptedPADO # NoFrame
    /\ pc = "waitForPADS"
    /\ conn.discoveryState = STATE_SENT_PADR
    /\ f.code = CODE_PADS
    /\ WellFormed(f)
    /\ f.h_source = acceptedPADO.h_source
    /\ f.h_dest = conn.myEth

SessionEstablished(f) ==
    /\ pc' = "returned"
    /\ conn'.discoveryState = STATE_SESSION
    /\ ntohs(conn'.session) = f.session
    /\ conn'.peerEth = acceptedPADO.h_source

C6_PADSGivesSession ==
    [][ (Delivered /\ PADSFromAcceptedPeer(rcvd') /\ ~HasErrorTag(rcvd'))
        => SessionEstablished(rcvd') ]_vars

(***************************************************************************)
(* C6 as amended: the same, for a PADS that also carries a Host-Uniq tag   *)
(* equal to hostUniq when hostUniq is configured (a PADS without it is     *)
(* dropped).                                                               *)
(***************************************************************************)
C6_PADSForMeGivesSession ==
    [][ ( /\ Delivered
          /\ PADSFromAcceptedPeer(rcvd')
          /\ ~HasErrorTag(rcvd')
          /\ conn.hostUniq # NULL => HasHostUniq(rcvd', conn.hostUniq) )
        => SessionEstablished(rcvd') ]_vars

\* discovery() has returned in Session on a PADS with session id 0xFFFF
\* from the MAC of the accepted PADO
C6_Witness ==
    /\ pc = "returned"
    /\ conn.discoveryState = STATE_SESSION
    /\ acceptedPADO # NoFrame
    /\ rcvd.code = CODE_PADS
    /\ rcvd.session = 65535
    /\ rcvd.h_source = acceptedPADO.h_source
    /\ conn.peerEth = rcvd.h_source
    /\ ntohs(conn.session) = 65535

(***************************************************************************)
(* C7 as stated: a PADO to myEth, passing the Host-Uniq check, from a      *)
(* non-broadcast source, that carries an error tag: ends the process with  *)
(* failure when printACNames = 0 and persist = 0; is dropped (state stays  *)
(* SentPADI, peerEth untouched, the wait goes on) when printACNames = 0    *)
(* and persist # 0; in probe mode does not end the process and is still    *)
(* counted for the listing when it has AC-Name and Service-Name.           *)
(***************************************************************************)
ErroredPADOForMe(f) ==
    /\ pc = "waitForPADO"
    /\ f.code = CODE_PADO
    /\ WellFormed(f)
    /\ f.h_dest = conn.myEth
    /\ conn.hostUniq # NULL => HasHostUniq(f, conn.hostUniq)
    /\ f.h_source # BcastMac
    /\ HasErrorTag(f)

ErroredPADOHandled(f) ==
    /\ (conn.printACNames = 0 /\ persist = 0) => pc' = "exit_failure"
    /\ (conn.printACNames = 0 /\ persist # 0) =>
          /\ pc' = "waitForPADO"
          /\ conn'.discoveryState = STATE_SENT_PADI
          /\ conn'.peerEth = conn.peerEth
          /\ acceptedPADO' = acceptedPADO
    /\ conn.printACNames # 0 =>
          /\ pc' = "waitForPADO"
          /\ (HasTag(f, TAG_AC_NAME) /\ HasTag(f, TAG_SERVICE_NAME)) =>
                conn'.numPADOs = conn.numPADOs + 1

C7_ErroredPADO ==
    [][ (Delivered /\ ErroredPADOForMe(rcvd')) => ErroredPADOHandled(rcvd')
      ]_vars

(***************************************************************************)
(* C7 as amended: the same, for a PADO that also comes from req_peer_mac   *)
(* when a required peer is configured (a PADO from another MAC is then     *)
(* ignored before its tags are read).                                      *)
(***************************************************************************)
C7_ErroredPADOFromWantedPeer ==
    [][ ( /\ Delivered
          /\ ErroredPADOForMe(rcvd')
          /\ conn.req_peer # 0 => rcvd'.h_source = conn.req_peer_mac )
        => ErroredPADOHandled(rcvd') ]_vars

\* the process has ended with failure on an errored PADO
C7_Witness ==
    /\ pc = "exit_failure"
    /\ persist = 0
    /\ conn.printACNames = 0
    /\ rcvd.code = CODE_PADO
    /\ HasErrorTag(rcvd)
    /\ rcvd.h_dest = conn.myEth
    /\ conn.discoveryState = STATE_SENT_PADI

(***************************************************************************)
(* C8 as stated: with printACNames = 0, a PADS from the peer carrying an   *)
(* error tag ends the process with failure when persist = 0, and is        *)
(* dropped, discovery going on, when persist # 0.                          *)
(***************************************************************************)
ErroredPADSFromPeer(f) ==
    /\ pc = "waitForPADS"
    /\ conn.printACNames = 0
    /\ f.code = CODE_PADS
    /\ WellFormed(f)
    /\ f.h_source = conn.peerEth
    /\ f.h_dest = conn.myEth
    /\ conn.hostUniq # NULL => HasHostUniq(f, conn.hostUniq)
    /\ HasErrorTag(f)

PADSDropped ==
    /\ pc' = "waitForPADS"
    /\ conn'.discoveryState = STATE_SENT_PADR
    /\ conn'.session = conn.session
    /\ timeout' = timeout

ProbeNeverConnects ==
    /\ conn.discoveryState \notin {STATE_RECEIVED_PADO, STATE_SESSION}
    /\ nPADR = 0
    /\ pc # "returned"
    /\ pc = "exit_success" => conn.numPADOs > 0
    /\ pc = "exit_failure" => conn.numPADOs = 0

ProbeKeepsReceiving == Delivered => pc' = "waitForPADO"

C9_Probe ==
    /\ [](conn.printACNames # 0 => ProbeNeverConnects)
    /\ [][conn.printACNames # 0 => ProbeKeepsReceiving]_vars

(***************************************************************************)
(* C9 as amended: the same, in a call without skipDiscovery (with          *)
(* skipDiscovery the state is set to Session at once, probing or not).     *)
(***************************************************************************)
C9_ProbeWithoutSkip ==
    /\ []((conn.printACNames # 0 /\ conn.skipDiscovery = 0)
            => ProbeNeverConnects)
    /\ [][(conn.printACNames # 0 /\ conn.skipDiscovery = 0)
            => ProbeKeepsReceiving]_vars

\* a probe has listed two PADOs in its first wait and ended with success
C9_Witness ==
    /\ conn.printACNames # 0
    /\ conn.skipDiscovery = 0
    /\ pc = "exit_success"
    /\ conn.numPADOs = 2
    /\ nPADI = 1
    /\ conn.discoveryState = STATE_SENT_PADI

(***************************************************************************)
(* C10: a probe sends at most MAX_PADI_ATTEMPTS PADIs, whatever persist    *)
(* is, each followed by a wait of discoveryTimeout.                        *)
(***************************************************************************)
C10_ProbeBounded ==
    conn.printACNames # 0 =>
        /\ nPADI <= MAX_PADI_ATTEMPTS
        /\ pc = "waitForPADO" => timeout = conn.discoveryTimeout

(***************************************************************************)
(* C11: with persist = 0 and printACNames = 0, discovery() terminates      *)
(* (returns or exits) when every timed wait ends by its deadline, it sends *)
(* at most MAX_PADI_ATTEMPTS PADIs and at most MAX_PADI_ATTEMPTS PADRs,    *)
(* and when it returns because the PADR attempts are used up the state is  *)
(* not Session.                                                            *)
(***************************************************************************)
Terminated == pc \in {"returned", "exit_success", "exit_failure"}

NonPersistent == persist = 0 /\ conn.printACNames = 0

C11_Terminates ==
    /\ [](NonPersistent =>
            /\ nPADI <= MAX_PADI_ATTEMPTS
            /\ nPADR <= MAX_PADI_ATTEMPTS
            /\ (pc = "returned" /\ padrAttempts > MAX_PADI_ATTEMPTS) =>
                  conn.discoveryState # STATE_SESSION)
    /\ (NonPersistent ~> Terminated)

\* three PADIs and three PADRs have been sent and discovery() has returned
\* on the PADS timeout, in SentPADR
C11_Witness ==
    /\ NonPersistent
    /\ pc = "returned"
    /\ padrAttempts > MAX_PADI_ATTEMPTS
    /\ nPADI = MAX_PADI_ATTEMPTS
    /\ nPADR = MAX_PADI_ATTEMPTS
    /\ acceptedPADO # NoFrame
    /\ conn.discoveryState = STATE_SENT_PADR

(***************************************************************************)
(* C12: with persist # 0 and printACNames = 0, discovery() returns only in *)
(* Session and never exits with failure; a step of a loop head or a wait   *)
(* timeout only leads to a further PADI or PADR; an acceptable PADO (PADS) *)
(* delivered within a wait gives ReceivedPADO (Session) in that step; and  *)
(* with fair waits the call goes on until Session or until the budget of   *)
(* transmissions explored here is used up.                                 *)
(***************************************************************************)
Persistent == persist # 0 /\ conn.printACNames = 0

\* f passes every test waitForPADO applies to a PADO, error tags aside
PassesPADOTests(f) ==
    /\ f.code = CODE_PADO
    /\ WellFormed(f)
    /\ f.h_dest = conn.myEth
    /\ conn.hostUniq # NULL => HasHostUniq(f, conn.hostUniq)
    /\ f.h_source # BcastMac
    /\ conn.req_peer # 0 => f.h_source = conn.req_peer_mac
    /\ HasTag(f, TAG_AC_NAME)
    /\ HasTag(f, TAG_SERVICE_NAME)
    /\ conn.acName # NULL =>
          \E i \in DOMAIN f.tags :
              f.tags[i].type = TAG_AC_NAME /\ f.tags[i].data = conn.acName
    /\ conn.serviceName # NULL =>
          \E i \in DOMAIN f.tags :
              /\ f.tags[i].type = TAG_SERVICE_NAME
              /\ f.tags[i].data = conn.serviceName

\* f passes every test waitForPADO applies to a PADO in non-probe mode
AcceptablePADO(f) == PassesPADOTests(f) /\ ~HasErrorTag(f)

\* f passes every test waitForPADS applies to a PADS
AcceptablePADS(f) ==
    /\ f.code = CODE_PADS
    /\ WellFormed(f)
    /\ f.h_source = conn.peerEth
    /\ f.h_dest = conn.myEth
    /\ conn.hostUniq # NULL => HasHostUniq(f, conn.hostUniq)
    /\ ~HasErrorTag(f)

OutOfBudget == nPADI + nPADR = MaxSent

PersistentStep ==
    /\ pc = "padi_loop" =>
          pc' = "waitForPADO" /\ nPADI' = nPADI + 1 /\ nPADR' = nPADR
    /\ pc = "padr_loop" =>
          \/ pc' = "waitForPADS" /\ nPADR' = nPADR + 1 /\ nPADI' = nPADI
          \/ pc' = "padi_loop" /\ nPADR' = nPADR /\ nPADI' = nPADI
    /\ (pc = "waitForPADO" /\ ~Delivered) => pc' = "padi_loop"
    /\ (pc = "waitForPADS" /\ ~Delivered) => pc' = "padr_loop"
    /\ (pc = "waitForPADO" /\ Delivered /\ AcceptablePADO(rcvd')) =>
          pc' = "padr_loop" /\ conn'.discoveryState = STATE_RECEIVED_PADO
    /\ (pc = "waitForPADS" /\ Delivered /\ AcceptablePADS(rcvd')) =>
          pc' = "returned" /\ conn'.discoveryState = STATE_SESSION

C12_PersistentNeverGivesUp ==
    /\ [](Persistent =>
            /\ pc = "returned" => conn.discoveryState = STATE_SESSION
            /\ pc # "exit_failure")
    /\ [][Persistent => PersistentStep]_vars
    /\ (Persistent ~>
            \/ pc = "returned" /\ conn.discoveryState = STATE_SESSION
            \/ pc = "exit_success"
            \/ OutOfBudget)

\* a persistent call that went through a PADO timeout cycle and then
\* reached Session on an acceptable PADO and PADS
C12_Witness ==
    /\ Persistent
    /\ conn.skipDiscovery = 0
    /\ pc = "returned"
    /\ conn.discoveryState = STATE_SESSION
    /\ nPADI = MAX_PADI_ATTEMPTS + 1
    /\ nPADR = 1
    /\ rcvd.code = CODE_PADS

(***************************************************************************)
(* C13: time_left returns 0 whenever now >= expire_at, and when it returns *)
(* 1 the interval it leaves in tv is positive (tv_sec >= 0, tv_usec >= 0,  *)
(* not both zero), so the wait returns at once when the deadline has       *)
(* passed and select() never gets a negative interval.                     *)
(***************************************************************************)
C13_TimeLeftSound ==
    [][ wpc = "time_left" /\ wpc' # wpc =>
          /\ Usecs(now) >= Usecs(expire_at) => wpc' = "timed_out"
          /\ wpc' = "select" =>
                /\ tv'.tv_sec >= 0
                /\ tv'.tv_usec >= 0
                /\ tv'.tv_sec + tv'.tv_usec > 0 ]_vars

(***************************************************************************)
(* C14: a wait never sleeps past its deadline, however often select() is   *)
(* interrupted: when select() reports that the interval is over, the clock *)
(* is not beyond expire_at.                                                *)
(***************************************************************************)
C14_NeverPastDeadline ==
    [][ wpc = "select" /\ wpc' = "timed_out" =>
          Usecs(now') <= Usecs(expire_at) ]_vars

(***************************************************************************)
(* C15: with skipDiscovery set, discovery() sets discoveryState to Session *)
(* without sending a PADI or PADR and without receiving a frame; with      *)
(* killSession it sends exactly one PADT and exits with success, otherwise *)
(* it returns without sending anything.                                    *)
(***************************************************************************)
C15_SkipDiscovery ==
    conn.skipDiscovery # 0 =>
        /\ nPADI = 0 /\ nPADR = 0 /\ nrecv = 0
        /\ pc \in {"entry", "returned", "exit_success"}
        /\ pc = "entry" => nPADT = 0
        /\ pc # "entry" =>
              /\ conn.discoveryState = STATE_SESSION
              /\ IF conn.killSession # 0
                 THEN /\ pc = "exit_success"
                      /\ nPADT = 1
                      /\ sent.code = CODE_PADT
                 ELSE /\ pc = "returned"
                      /\ nPADT = 0
                      /\ sent = NoFrame

\* the session was killed: one PADT sent, process ended with success
C15_Witness ==
    /\ conn.skipDiscovery # 0
    /\ conn.killSession # 0
    /\ pc = "exit_success"
    /\ conn.discoveryState = STATE_SESSION
    /\ nPADT = 1
    /\ sent.code = CODE_PADT

(***************************************************************************)
(* C16 as stated: in non-probe mode the state leaves SentPADI for          *)
(* ReceivedPADO only on a delivered frame with code PADO, destination      *)
(* myEth, a non-broadcast source, an AC-Name tag and a Service-Name tag,   *)
(* and a tag equal to each configured name filter; a PADO that fails a     *)
(* filter is dropped, and after the deadline the timeout is doubled and    *)
(* the next step sends a PADI.                                             *)
(***************************************************************************)
\* f has a tag of type t whose value is exactly name, or no name is asked
FilterOK(f, t, name) ==
    name # NULL =>
        \E i \in DOMAIN f.tags : f.tags[i].type = t /\ f.tags[i].data = name

MeetsPADOCriteria(f) ==
    /\ f.code = CODE_PADO
    /\ f.h_dest = conn.myEth
    /\ f.h_source # BcastMac
    /\ HasTag(f, TAG_AC_NAME)
    /\ HasTag(f, TAG_SERVICE_NAME)
    /\ FilterOK(f, TAG_AC_NAME, conn.acName)
    /\ FilterOK(f, TAG_SERVICE_NAME, conn.serviceName)

\* a PADO that passes every test of waitForPADO except a name filter
FailsFilter(f) ==
    /\ f.code = CODE_PADO
    /\ WellFormed(f)
    /\ f.h_dest = conn.myEth
    /\ conn.hostUniq # NULL => HasHostUniq(f, conn.hostUniq)
    /\ f.h_source # BcastMac
    /\ conn.req_peer # 0 => f.h_source = conn.req_peer_mac
    /\ ~HasErrorTag(f)
    /\ HasTag(f, TAG_AC_NAME)
    /\ HasTag(f, TAG_SERVICE_NAME)
    /\ \/ ~FilterOK(f, TAG_AC_NAME, conn.acName)
       \/ ~FilterOK(f, TAG_SERVICE_NAME, conn.serviceName)

PADOAcceptedOnlyIfCriteria ==
    ( /\ conn.discoveryState = STATE_SENT_PADI
      /\ conn'.discoveryState = STATE_RECEIVED_PADO )
    => /\ pc = "waitForPADO"
       /\ Delivered
       /\ MeetsPADOCriteria(rcvd')
       /\ conn'.peerEth = rcvd'.h_source

FilteredPADODropped ==
    (pc = "waitForPADO" /\ Delivered /\ FailsFilter(rcvd'))
    => /\ pc' = "waitForPADO"
       /\ conn'.discoveryState = STATE_SENT_PADI
       /\ conn'.peerEth = conn.peerEth
       /\ timeout' = timeout

PADODeadlineDoubles ==
    (pc = "waitForPADO" /\ ~Delivered)
    => /\ pc' = "padi_loop"
       /\ timeout' = 2 * timeout
       /\ conn' = conn

PADIRetransmitted ==
    /\ sent' = PADIFrame(conn)
    /\ nPADI' = nPADI + 1
    /\ timeout' = timeout
    /\ pc' = "waitForPADO"

C16_PADOFilter ==
    [][ conn.printACNames = 0 =>
          /\ PADOAcceptedOnlyIfCriteria
          /\ FilteredPADODropped
          /\ PADODeadlineDoubles
          /\ pc = "padi_loop" => PADIRetransmitted ]_vars

(***************************************************************************)
(* C16 as amended: the same, where the PADI with the doubled timeout is    *)
(* sent after the deadline if the attempt counter has not yet reached      *)
(* MAX_PADI_ATTEMPTS (when it has, the PADI phase ends or, in persistent   *)
(* mode, starts over with the timeout reset).                              *)
(***************************************************************************)
C16_PADOFilterWhileAttemptsRemain ==
    [][ conn.printACNames = 0 =>
          /\ PADOAcceptedOnlyIfCriteria
          /\ FilteredPADODropped
          /\ PADODeadlineDoubles
          /\ (pc = "padi_loop" /\ padiAttempts < MAX_PADI_ATTEMPTS) =>
                PADIRetransmitted ]_vars

\* a PADO whose AC-Name is not the configured one was dropped in the first
\* wait
C16_Witness ==
    /\ conn.printACNames = 0
    /\ conn.acName = AC_A
    /\ pc = "waitForPADO"
    /\ conn.discoveryState = STATE_SENT_PADI
    /\ conn.peerEth = ZeroMac
    /\ \E i \in DOMAIN rcvd.tags :
          rcvd.tags[i].type = TAG_AC_NAME /\ rcvd.tags[i].data = AC_AB
    /\ FailsFilter(rcvd)

(***************************************************************************)
(* C17: the state leaves SentPADR for Session only on a delivered frame    *)
(* with code PADS, source peerEth, destination myEth, the configured       *)
(* Host-Uniq and no error tag; conn->session is written in that step only, *)
(* so a call that returns on the PADS timeout leaves it as it was.         *)
(***************************************************************************)
C17_SessionOnlyOnPADS ==
    /\ [][ /\ ( /\ conn.discoveryState = STATE_SENT_PADR
                /\ conn'.discoveryState = STATE_SESSION )
              => /\ pc = "waitForPADS"
                 /\ Delivered
                 /\ AcceptablePADS(rcvd')
                 /\ ntohs(conn'.session) = rcvd'.session
           /\ conn'.session # conn.session
              => /\ conn.discoveryState = STATE_SENT_PADR
                 /\ conn'.discoveryState = STATE_SESSION ]_vars
    /\ []((pc = "returned" /\ conn.discoveryState # STATE_SESSION)
            => conn.session = 0)

\* Session was reached on a PADS with the configured Host-Uniq and session
\* id 0x0042, sent by the peer of the accepted PADO
C17_Witness ==
    /\ conn.hostUniq # NULL
    /\ pc = "returned"
    /\ conn.discoveryState = STATE_SESSION
    /\ acceptedPADO # NoFrame
    /\ rcvd.code = CODE_PADS
    /\ rcvd.h_source = conn.peerEth
    /\ HasHostUniq(rcvd, conn.hostUniq)
    /\ ntohs(conn.session) = 66
    /\ nPADR >= 1

(***************************************************************************)
(* C18 as stated: peerEth is zero until a PADO is accepted, is set to the  *)
(* source MAC of the first PADO that meets all criteria, and nothing       *)
(* changes it afterwards (no further PADO, no persistent-mode restart of   *)
(* the PADI phase, no probe-mode listing).                                 *)
(***************************************************************************)
\* f meets all criteria: a probe lists a PADO whatever error tags it has
MatchingPADO(f) ==
    /\ PassesPADOTests(f)
    /\ conn.printACNames = 0 => ~HasErrorTag(f)

PeerSetByMatchingPADO ==
    conn'.peerEth # conn.peerEth =>
        /\ pc = "waitForPADO"
        /\ Delivered
        /\ MatchingPADO(rcvd')
        /\ conn'.peerEth = rcvd'.h_source

C18_PeerWriteOnce ==
    [][ /\ PeerSetByMatchingPADO
        /\ conn.peerEth # ZeroMac => conn'.peerEth = conn.peerEth ]_vars

(***************************************************************************)
(* C18 as amended: peerEth changes only when a PADO that meets all         *)
(* criteria is delivered in waitForPADO, and every such PADO writes its    *)
(* source MAC to peerEth.  In non-probe mode that PADO ends the wait, so   *)
(* peerEth keeps the value for the rest of the round (the PADR phase); a   *)
(* PADO accepted after a persistent-mode restart, and every further        *)
(* matching PADO of a probe, overwrites it.                                *)
(***************************************************************************)
C18_PeerSetByEachMatchingPADO ==
    [][ /\ PeerSetByMatchingPADO
        /\ (pc = "waitForPADO" /\ Delivered /\ MatchingPADO(rcvd')) =>
              /\ conn'.peerEth = rcvd'.h_source
              /\ conn.printACNames = 0 =>
                    /\ pc' = "padr_loop"
                    /\ conn'.discoveryState = STATE_RECEIVED_PADO
        /\ pc \in {"padr_loop", "waitForPADS", "padi_loop", "returned"} =>
              conn'.peerEth = conn.peerEth ]_vars

\* persistent mode: the PADO accepted in the first round came from AC1 (it
\* carried a cookie), the PADR phase ran out, and the PADO accepted after
\* the restart has set peerEth to AC2
C18_Witness ==
    /\ persist # 0
    /\ conn.printACNames = 0
    /\ nPADR = MAX_PADI_ATTEMPTS
    /\ nPADI = 2
    /\ nrecv = 2
    /\ conn.cookie.payload = COOKIE_1
    /\ acceptedPADO.h_source = AC2Mac
    /\ conn.peerEth = AC2Mac
    /\ conn.discoveryState = STATE_RECEIVED_PADO

(***************************************************************************)
(* C19: in persistent non-probe mode every PADI retry cycle, the first and *)
(* every later one, is MAX_PADI_ATTEMPTS transmissions whose waits last    *)
(* T, 2T, ..., 2^(MAX_PADI_ATTEMPTS-1) * T, and no PADO wait is longer     *)
(* than 2^(MAX_PADI_ATTEMPTS-1) * discoveryTimeout.                        *)
(***************************************************************************)
C19_PADICycle ==
    (Persistent /\ pc = "waitForPADO") =>
        /\ waitK <= MAX_PADI_ATTEMPTS
        /\ timeout = Doubled(conn.discoveryTimeout, waitK)
        /\ timeout <= Doubled(conn.discoveryTimeout, MAX_PADI_ATTEMPTS)

(***************************************************************************)
(* C20: a delivered frame that is dropped for a bogus length field, a      *)
(* wrong destination MAC, a wrong or missing Host-Uniq, a missing AC-Name  *)
(* or Service-Name tag, a name filter mismatch, or (a PADS) a source other *)
(* than peerEth leaves peerEth, cookie, relayId, session and               *)
(* discoveryState as they were, and the wait goes on with its deadline.    *)
(***************************************************************************)
\* f fails the tests every received frame goes through
Misaddressed(f) ==
    \/ ~WellFormed(f)
    \/ f.h_dest # conn.myEth
    \/ conn.hostUniq # NULL /\ ~HasHostUniq(f, conn.hostUniq)

\* a PADO without error tags that gets as far as the tag criteria and
\* fails them
FailsPADOCriteria(f) ==
    /\ ~Misaddressed(f)
    /\ f.code = CODE_PADO
    /\ f.h_source # BcastMac
    /\ conn.req_peer # 0 => f.h_source = conn.req_peer_mac
    /\ ~HasErrorTag(f)
    /\ \/ ~HasTag(f, TAG_AC_NAME)
       \/ ~HasTag(f, TAG_SERVICE_NAME)
       \/ ~FilterOK(f, TAG_AC_NAME, conn.acName)
       \/ ~FilterOK(f, TAG_SERVICE_NAME, conn.serviceName)

DroppedForMismatch(f) ==
    \/ pc = "waitForPADO" /\ (Misaddressed(f) \/ FailsPADOCriteria(f))
    \/ pc = "waitForPADS" /\ (Misaddressed(f) \/ f.h_source # conn.peerEth)

C20_DropLeavesContext ==
    [][ (Delivered /\ DroppedForMismatch(rcvd')) =>
          /\ conn'.peerEth = conn.peerEth
          /\ conn'.cookie = conn.cookie
          /\ conn'.relayId = conn.relayId
          /\ conn'.session = conn.session
          /\ conn'.discoveryState = conn.discoveryState
          /\ pc' = pc
          /\ timeout' = timeout ]_vars

(***************************************************************************)
(* C21: when discovery() returns in Session through an accepted PADS and   *)
(* no PADO or PADS delivered during the call carried a PPP-Max-Payload tag *)
(* of length 2 and value >= 1492, lcp_allowoptions[0].mru and              *)
(* lcp_wantoptions[0].mru are both <= 1492 on return; and no step of the   *)
(* call raises either of the two.                                          *)
(***************************************************************************)
\* discovery() has returned after waitForPADS left its loop on a PADS
ReturnedViaPADS ==
    /\ pc = "returned"
    /\ conn.skipDiscovery = 0
    /\ conn.discoveryState = STATE_SESSION
    /\ rcvd.code = CODE_PADS

MRUNeverRaised ==
    /\ lcp_allowoptions'.mru <= lcp_allowoptions.mru
    /\ lcp_wantoptions'.mru <= lcp_wantoptions.mru

C21_MRULimited ==
    /\ [](ReturnedViaPADS /\ ~maxPayloadRcvd =>
            /\ lcp_allowoptions.mru <= ETH_PPPOE_MTU
            /\ lcp_wantoptions.mru <= ETH_PPPOE_MTU)
    /\ [][MRUNeverRaised]_vars

\* a return through a PADS with no PPP-Max-Payload delivered, where the
\* last PADR still announced an MRU above 1492: both MRUs were cut down
C21_Witness ==
    /\ ReturnedViaPADS
    /\ ~maxPayloadRcvd
    /\ HasTag(sent, TAG_PPP_MAX_PAYLOAD)
    /\ lcp_allowoptions.mru = ETH_PPPOE_MTU
    /\ lcp_wantoptions.mru = ETH_PPPOE_MTU

(***************************************************************************)
(* C22: in a call without skipDiscovery, STATE_SESSION is reached only     *)
(* after a PADO was accepted in the same call, so on a return in           *)
(* STATE_SESSION peerEth is the non-zero source MAC of the accepted PADO   *)
(* and the PADR was sent to that MAC.                                      *)
(***************************************************************************)
C22_SessionAfterAcceptedPADO ==
    (conn.skipDiscovery = 0 /\ conn.discoveryState = STATE_SESSION) =>
        /\ acceptedPADO # NoFrame
        /\ conn.peerEth # ZeroMac
        /\ conn.peerEth = acceptedPADO.h_source
        /\ sent.code = CODE_PADR
        /\ sent.h_dest = conn.peerEth
====
